---------------------------- MODULE Spec2Model ----------------------------
(***************************************************************************)
(* Lifecycle orchestration of testcontainers' async HTTP client.           *)
(*                                                                         *)
(*   clients/http.rs          Http::run, create_network_if_not_exists,     *)
(*                            network_exists, Drop for Client, Http::rm    *)
(*   core/container_async.rs  ContainerAsync::{new, block_until_ready,     *)
(*                            start, stop, rm, drop_async}, Drop           *)
(*                                                                         *)
(* The docker engine is the environment.  Its answers to create-container, *)
(* image pull, start-container, the log waits and the health inspection    *)
(* are inputs (chosen with \E).  Its answers to the network calls and to   *)
(* start/stop/remove of a container follow from the engine state that the  *)
(* model keeps (which networks and containers exist).                      *)
(*                                                                         *)
(* A panic (unwrap/panic! in the source) unwinds the calling test: no new  *)
(* operation is started afterwards, only the values in scope are dropped.  *)
(***************************************************************************)
EXTENDS Naturals, Sequences, FiniteSets

VARIABLES
    command,           \* Client.command: env::Command of the client
    preexisting,       \* networks the engine had before the client was built
    networks,          \* names of the networks the engine has now
    containers,        \* engine state of each container id
    created_networks,  \* Client.created_networks (Vec<String>)
    guard,             \* RwLock of created_networks: "none", "read", "write"
    httpAlive,         \* the caller still holds its Http value
    clientPc,          \* Arc<Client>: "alive", "sweeping" / "removing" (in Drop), "dropped"
    sweepIdx,          \* position of Drop for Client in created_networks
    handles,           \* state of the ContainerAsync of each container id
    rmReq,             \* remove-container requests received per container id
    netCreateReq,      \* create-network requests received per name
    netRemoveReq,      \* remove-network requests received per name
    ensureRet,         \* values create_network_if_not_exists returned per name
    frame,             \* the activation of Http::run of each calling task
    panicked,          \* the calling test is unwinding from a panic
    concurrent,        \* run calls of different tasks may interleave
    workload,          \* what the calling test does: many runs, or one run with many waits
    nruns,             \* number of run calls made
    himage,            \* ContainerAsync.image of each container id (its network)
    lookup             \* the last get_host_port_ipv4/6 or get_bridge_ip_address call

vars == <<command, preexisting, networks, containers, created_networks, guard,
          httpAlive, clientPc, sweepIdx, handles, rmReq, netCreateReq,
          netRemoveReq, ensureRet, frame, panicked, concurrent, workload, nruns, himage, lookup>>

---------------------------------------------------------------------------
(* Bounds *)

MaxRuns == 2

MaxConds == 2

MaxPolls == 2

MaxPullEvents == 1

MaxTasks == 2

MaxPorts == 2

MaxLookups == 2

---------------------------------------------------------------------------
(* Domains *)

Ids == 1..MaxRuns

Tasks == 1..MaxTasks

Networks == {"net-a", "net-b"}

NoNetwork == "-"

Commands == {"Remove", "Keep"}

WaitKinds == {"StdOutMessage", "StdErrMessage", "Duration", "Healthcheck", "Nothing"}

CondSeqs == UNION {[1..n -> WaitKinds] : n \in 0..MaxConds}

NoPorts == [some |-> FALSE, list |-> <<>>]

Port == [local : {123, 555}, internal : {456, 888}]

PortLists ==
    {NoPorts} \cup {[some |-> TRUE, list |-> l] : l \in UNION {[1..n -> Port] : n \in 1..MaxPorts}}

ExposeLists == UNION {[1..n -> {456, 5000}] : n \in 0..MaxPorts}

RunnableImages ==
    [network : Networks \cup {NoNetwork},
     ready_conditions : CondSeqs,
     ports : PortLists,
     expose_ports : ExposeLists]

Workloads == {"lifecycle", "readiness", "ports", "inspect", "interleaved"}

Images(w) ==
    CASE w = "lifecycle" ->
           [network : Networks \cup {NoNetwork},
            ready_conditions : {c \in CondSeqs : Len(c) <= 1},
            ports : {NoPorts},
            expose_ports : {<<>>}]
      [] w = "readiness" ->
           [network : {NoNetwork},
            ready_conditions : CondSeqs,
            ports : {NoPorts},
            expose_ports : {<<>>}]
      [] w = "interleaved" ->
           [network : Networks,
            ready_conditions : {<<>>},
            ports : {NoPorts},
            expose_ports : {<<>>}]
      [] w = "ports" ->
           [network : {NoNetwork},
            ready_conditions : {<<>>},
            ports : PortLists,
            expose_ports : ExposeLists]
      [] OTHER ->
           [network : Networks \cup {NoNetwork},
            ready_conditions : {<<>>},
            ports : {NoPorts},
            expose_ports : {<<>>}]

RunBudget(w) ==
    CASE w = "lifecycle" -> MaxRuns
      [] w = "interleaved" -> MaxTasks
      [] OTHER -> 1

HealthReports ==
    {"NoState", "NoHealth", "NoStatus", "EMPTY", "NONE", "HEALTHY", "UNHEALTHY", "STARTING"}

HealthScripts ==
    {[i \in 1..(k + 1) |-> IF i <= k THEN "STARTING" ELSE last] :
        k \in 0..(MaxPolls - 1), last \in HealthReports}

CreateAnswers == {"ok", "404", "err"}

DuplicateAnswers == {"ok", "err"}

Existing == {"created", "running", "exited"}

---------------------------------------------------------------------------
(* Decisions of the code *)

network_exists_never(nets, network) == FALSE

network_exists(nets, network) == network \in nets

TcpKey(p) == [port |-> p, proto |-> "tcp"]

PortString(p) == [decimal |-> p]

DeclaresPorts_ExplicitOnly(image) == image.ports.some

DeclaresPorts(image) == image.ports.some \/ Len(image.expose_ports) > 0

ExplicitKey_Local(p) == TcpKey(p.local)

ExplicitKey(p) == TcpKey(p.internal)

ExplicitEntries(image) ==
    LET ps == IF image.ports.some THEN image.ports.list ELSE <<>>
    IN [i \in 1..Len(ps) |->
          [key |-> ExplicitKey(ps[i]),
           value |-> <<[host_ip |-> "127.0.0.1", host_port |-> PortString(ps[i].local)]>>]]

ExposedEntries(image) ==
    [i \in 1..Len(image.expose_ports) |->
       [key |-> TcpKey(image.expose_ports[i]),
        value |-> <<[host_ip |-> "None", host_port |-> "None"]>>]]

CollectMap(entries) ==
    [k \in {entries[i].key : i \in 1..Len(entries)} |->
       LET last == CHOOSE i \in 1..Len(entries) :
                     /\ entries[i].key = k
                     /\ \A j \in 1..Len(entries) : entries[j].key = k => j <= i
       IN entries[last].value]

BuildConfig(image) ==
    [image |-> "descriptor",
     network_mode |-> image.network,
     exposed_ports |-> {TcpKey(image.expose_ports[i]) : i \in 1..Len(image.expose_ports)},
     port_bindings |-> IF DeclaresPorts(image)
                       THEN [some |-> TRUE,
                             map |-> CollectMap(ExplicitEntries(image) \o ExposedEntries(image))]
                       ELSE [some |-> FALSE, map |-> CollectMap(<<>>)],
     publish_all_ports |-> IF DeclaresPorts(image) THEN "None" ELSE "Some(true)"]

CreateVerdict_NoRecovery(answer) == IF answer = "ok" THEN "id" ELSE "panic"

CreateVerdict_AnyErrorPulls(answer) == IF answer = "ok" THEN "id" ELSE "pull"

CreateVerdict(answer) ==
    CASE answer = "ok"  -> "id"
      [] answer = "404" -> "pull"
      [] OTHER          -> "panic"

RetryVerdict(answer) == IF answer = "ok" THEN "id" ELSE "panic"

StartVerdict_IgnoresError(answer) == "wait"

StartVerdict(answer) == IF answer = "ok" THEN "wait" ELSE "panic"

PullVerdict_ErrorRetries(event) == IF event = "progress" THEN "next" ELSE "retry"

PullVerdict(event) ==
    CASE event = "err" -> "panic"
      [] event = "end" -> "retry"
      [] OTHER         -> "next"

AfterConfig_SkipEnsure(image) == "create"

AfterConfig(image) == IF image.network # NoNetwork THEN "net_list" ELSE "create"

Call(call, id, answer) == [call |-> call, id |-> id, answer |-> answer]

RecordNetwork_Always(created) == TRUE

RecordNetwork(created) == created

NextCondition_Reversed(conds, done) == conds[Len(conds) - done]

NextCondition(conds, done) == conds[done + 1]

HealthMatch_EmptyBreaks(report) ==
    CASE report \in {"HEALTHY", "EMPTY"} -> "break"
      [] report = "STARTING" -> "sleep"
      [] OTHER -> "panic"

HealthMatch(report) ==
    CASE report = "NoState"   -> "panic"
      [] report = "NoHealth"  -> "panic"
      [] report = "HEALTHY"   -> "break"
      [] report \in {"NoStatus", "EMPTY", "NONE"} -> "panic"
      [] report = "UNHEALTHY" -> "panic"
      [] report = "STARTING"  -> "sleep"

AfterHealthMatch == "panic"

UnwindDropsHandle_Never(pc) == FALSE

UnwindDropsHandle(pc) == pc = "wait"

rm_removes_policy_gated(cmd) == cmd = "Remove"

rm_removes(cmd) == TRUE

drop_async_ignores_policy(cmd) == TRUE

drop_async_removes(cmd) == cmd = "Remove"

ClientDropSweeps_Never(cmd) == FALSE

ClientDropSweeps(cmd) == cmd = "Remove"

EngineRm(cs, id) ==
    [ok |-> cs[id] \in Existing,
     cs |-> IF cs[id] \in Existing THEN [cs EXCEPT ![id] = "removed"] ELSE cs]

FreshId(cs) == CHOOSE id \in Ids : cs[id] = "absent" /\ \A j \in Ids : cs[j] = "absent" => id <= j

InRm == {"rm_ok", "rm_err"}

DropPanics(cs, h) == drop_async_removes(command) /\ ~EngineRm(cs, h).ok

StrongCount_HttpOnly(ha, hs) == IF ha THEN 1 ELSE 0

StrongCount(ha, hs) ==
    (IF ha THEN 1 ELSE 0) + Cardinality({h \in Ids : hs[h] \in {"waiting", "live"} \cup InRm})

ClientAfter(ha, hs) ==
    IF clientPc = "alive" /\ StrongCount(ha, hs) = 0
    THEN IF ClientDropSweeps(command) THEN "sweeping" ELSE "dropped"
    ELSE clientPc

GuardAfter(ha, hs) ==
    IF clientPc = "alive" /\ ClientAfter(ha, hs) = "sweeping" THEN "read" ELSE guard

GuardAcrossRemove_Released(g) == "none"

GuardAcrossRemove(g) == g

---------------------------------------------------------------------------
(* Port and address lookups of a ContainerAsync *)

Families == {"v4", "v6"}

HostIp(family) == IF family = "v4" THEN "0.0.0.0" ELSE "::"

HostPort(family) == IF family = "v4" THEN 32768 ELSE 32769

LiveBinding(family) == [host_ip |-> HostIp(family), host_port |-> PortString(HostPort(family))]

LivePortMaps ==
    UNION {[{TcpKey(q) : q \in qs} -> {{LiveBinding(fam) : fam \in fs} : fs \in SUBSET Families \ {{}}}] :
             qs \in SUBSET {456, 5000}}

NoPortMap == [settings |-> FALSE, some |-> FALSE, map |-> CollectMap(<<>>)]

PortInspects ==
    {NoPortMap, [settings |-> TRUE, some |-> FALSE, map |-> CollectMap(<<>>)]}
    \cup {[settings |-> TRUE, some |-> TRUE, map |-> pm] : pm \in LivePortMaps}

IpFamily(ip) == IF ip = "0.0.0.0" THEN "v4" ELSE "v6"

PortsFrom(map) ==
    [fam \in Families |->
       [q \in {k.port : k \in {k \in DOMAIN map : \E b \in map[k] : IpFamily(b.host_ip) = fam}} |->
          LET b == CHOOSE b \in map[TcpKey(q)] : IpFamily(b.host_ip) = fam
          IN b.host_port.decimal]]

PortsDefault == [fam \in Families |-> CollectMap(<<>>)]

map_to_host_port(ports, family, internal_port) ==
    IF internal_port \in DOMAIN ports[family]
    THEN [some |-> TRUE, port |-> ports[family][internal_port]]
    ELSE [some |-> FALSE, port |-> 0]

HttpPorts(resp) ==
    IF resp.settings /\ resp.some THEN PortsFrom(resp.map) ELSE PortsDefault

HostPortOrPanic_Zero(found) == [panic |-> FALSE, value |-> found.port]

HostPortOrPanic(found) ==
    IF found.some
    THEN [panic |-> FALSE, value |-> found.port]
    ELSE [panic |-> TRUE, value |-> 0]

get_host_port(resp, family, internal_port) ==
    HostPortOrPanic(map_to_host_port(HttpPorts(resp), family, internal_port))

InspectNames == {"net-a", "bridge"}

IpStrings == {"None", "172.17.0.2", "10.0.0.5", "bogus"}

NetworkMaps == UNION {[ns -> IpStrings] : ns \in SUBSET InspectNames}

BridgeInspects ==
    {[settings |-> FALSE, some |-> FALSE, map |-> CollectMap(<<>>), bridge |-> "None"]}
    \cup {[settings |-> TRUE, some |-> FALSE, map |-> CollectMap(<<>>), bridge |-> b] :
             b \in InspectNames \cup {"None"}}
    \cup {[settings |-> TRUE, some |-> TRUE, map |-> nm, bridge |-> b] :
             nm \in NetworkMaps, b \in InspectNames \cup {"None"}}

NoAddr == [family |-> "-", octets |-> <<>>]

IpAddrFromStr(ip) ==
    CASE ip = "172.17.0.2" -> [ok |-> TRUE, addr |-> [family |-> "v4", octets |-> <<172, 17, 0, 2>>]]
      [] ip = "10.0.0.5" -> [ok |-> TRUE, addr |-> [family |-> "v4", octets |-> <<10, 0, 0, 5>>]]
      [] OTHER -> [ok |-> FALSE, addr |-> NoAddr]

BridgeName_EnginePreferred(network, resp) ==
    IF resp.bridge # "None" THEN resp.bridge ELSE IF network # NoNetwork THEN network ELSE "None"

BridgeName(network, resp) ==
    IF network # NoNetwork THEN network ELSE resp.bridge

get_bridge_ip_address(network, resp) ==
    LET bridge_name == BridgeName(network, resp)
        fail == [panic |-> TRUE, value |-> NoAddr]
    IN IF ~resp.settings THEN fail
       ELSE IF ~resp.some THEN fail
       ELSE IF bridge_name = "None" THEN fail
       ELSE IF bridge_name \notin DOMAIN resp.map THEN fail
       ELSE IF resp.map[bridge_name] = "None" THEN fail
       ELSE IF ~IpAddrFromStr(resp.map[bridge_name]).ok THEN fail
       ELSE [panic |-> FALSE, value |-> IpAddrFromStr(resp.map[bridge_name]).addr]

NoLookup ==
    [kind |-> "none", h |-> 0, calls |-> 0, inspects |-> 0,
     family |-> "-", internal_port |-> 0, network |-> NoNetwork,
     resp |-> NoPortMap, result |-> [panic |-> FALSE, value |-> 0]]

---------------------------------------------------------------------------
(* Initial state: Http::new *)

NoImage ==
    [network |-> NoNetwork, ready_conditions |-> <<>>, ports |-> NoPorts, expose_ports |-> <<>>]

NoAnswer == [answer |-> "none", id |-> 0]

IdleFrame ==
    [pc |-> "idle",
     image |-> NoImage,
     config |-> BuildConfig(NoImage),
     ensured |-> "none",
     creates |-> <<>>,
     answers |-> <<>>,
     pulls |-> 0,
     pullEvents |-> 0,
     pullResult |-> "none",
     starts |-> 0,
     cid |-> 0,
     done |-> 0,
     evalLog |-> <<>>,
     timeline |-> <<>>,
     inHealth |-> FALSE,
     hcScript |-> <<>>,
     seen |-> <<>>,
     sleeps |-> 0,
     sleeping |-> FALSE,
     hcResult |-> "none",
     log |-> <<>>,
     pending |-> NoAnswer]

InitCommon ==
    /\ command \in Commands
    /\ preexisting \in SUBSET Networks
    /\ networks = preexisting
    /\ containers = [id \in Ids |-> "absent"]
    /\ created_networks = <<>>
    /\ guard = "none"
    /\ httpAlive = TRUE
    /\ clientPc = "alive"
    /\ sweepIdx = 0
    /\ handles = [id \in Ids |-> "none"]
    /\ rmReq = [id \in Ids |-> 0]
    /\ netCreateReq = [n \in Networks |-> 0]
    /\ netRemoveReq = [n \in Networks |-> 0]
    /\ ensureRet = [n \in Networks |-> <<>>]
    /\ frame = [t \in Tasks |-> IdleFrame]
    /\ panicked = FALSE
    /\ nruns = 0
    /\ workload \in Workloads
    /\ himage = [id \in Ids |-> NoNetwork]
    /\ lookup = NoLookup

Init == InitCommon /\ concurrent = FALSE

InitConc == InitCommon /\ concurrent = TRUE

---------------------------------------------------------------------------
(* Http::run *)

Active(t) == frame[t].pc \notin {"idle", "done", "panicked", "cancelled"}

CallerFree ==
    /\ \A t \in Tasks : ~Active(t)
    /\ \A h \in Ids : handles[h] \notin InRm

MayCall(t) ==
    /\ ~panicked
    /\ ~Active(t)
    /\ IF concurrent /\ workload = "interleaved" THEN TRUE ELSE t = 1 /\ CallerFree

Panic(t, f) ==
    /\ frame' = [frame EXCEPT ![t] = [f EXCEPT !.pc = "panicked"]]
    /\ panicked' = TRUE

Retired == [t \in Tasks |-> IF Active(t) THEN frame[t] ELSE IdleFrame]

RunBegin(t) ==
    /\ MayCall(t)
    /\ httpAlive
    /\ nruns < RunBudget(workload)
    /\ \E image \in Images(workload) :
         frame' = [frame EXCEPT ![t] =
                     [IdleFrame EXCEPT
                        !.image = image,
                        !.config = BuildConfig(image),
                        !.pc = AfterConfig(image)]]
    /\ nruns' = nruns + 1
    /\ UNCHANGED <<command, preexisting, networks, containers, created_networks, guard,
                   httpAlive, clientPc, sweepIdx, handles, rmReq, netCreateReq,
                   netRemoveReq, ensureRet, panicked, concurrent, workload, himage, lookup>>

NetworkList(t) ==
    /\ frame[t].pc = "net_list"
    /\ ~panicked
    /\ LET f == frame[t]
           n == f.image.network
       IN IF network_exists(networks, n)
          THEN /\ frame' = [frame EXCEPT ![t] =
                              [f EXCEPT !.pc = "create", !.ensured = "false",
                                        !.log = Append(@, Call("list_networks", 0, "exists"))]]
               /\ ensureRet' = [ensureRet EXCEPT ![n] = Append(@, FALSE)]
               /\ created_networks' = IF RecordNetwork(FALSE)
                                      THEN Append(created_networks, n)
                                      ELSE created_networks
          ELSE /\ frame' = [frame EXCEPT ![t] =
                              [f EXCEPT !.pc = "net_create",
                                        !.log = Append(@, Call("list_networks", 0, "absent"))]]
               /\ UNCHANGED <<ensureRet, created_networks>>
    /\ UNCHANGED <<command, preexisting, networks, containers, guard,
                   httpAlive, clientPc, sweepIdx, handles, rmReq, netCreateReq,
                   netRemoveReq, panicked, concurrent, workload, nruns, himage, lookup>>

NetworkCreate(t) ==
    /\ frame[t].pc = "net_create"
    /\ ~panicked
    /\ \E answer \in DuplicateAnswers :
         LET f == frame[t]
             n == f.image.network
         IN /\ netCreateReq' = [netCreateReq EXCEPT ![n] = @ + 1]
            /\ n \notin networks => answer = "ok"
            /\ networks' = IF answer = "ok" THEN networks \cup {n} ELSE networks
            /\ frame' = [frame EXCEPT ![t] =
                           [f EXCEPT !.pc = "net_created",
                                     !.pending = [answer |-> answer, id |-> 0]]]
    /\ UNCHANGED <<command, preexisting, containers, guard, created_networks, ensureRet,
                   httpAlive, clientPc, sweepIdx, handles, rmReq, panicked,
                   netRemoveReq, concurrent, workload, nruns, himage, lookup>>

NetworkCreateReturn(t) ==
    /\ frame[t].pc = "net_created"
    /\ ~panicked
    /\ LET f == [frame[t] EXCEPT !.pending = NoAnswer,
                                 !.log = Append(@, Call("create_network", 0,
                                                        frame[t].pending.answer))]
           n == f.image.network
       IN IF frame[t].pending.answer = "err"
          THEN /\ Panic(t, f)
               /\ UNCHANGED <<created_networks, ensureRet>>
          ELSE /\ ensureRet' = [ensureRet EXCEPT ![n] = Append(@, TRUE)]
               /\ created_networks' = IF RecordNetwork(TRUE)
                                      THEN Append(created_networks, n)
                                      ELSE created_networks
               /\ frame' = [frame EXCEPT ![t] = [f EXCEPT !.pc = "create", !.ensured = "true"]]
               /\ UNCHANGED panicked
    /\ UNCHANGED <<command, preexisting, networks, containers, guard,
                   httpAlive, clientPc, sweepIdx, handles, rmReq, netCreateReq,
                   netRemoveReq, concurrent, workload, nruns, himage, lookup>>

EngineCreate(t, next) ==
    \E answer \in CreateAnswers :
       LET id == IF answer = "ok" THEN FreshId(containers) ELSE 0
       IN /\ containers' = IF answer = "ok"
                           THEN [containers EXCEPT ![id] = "created"]
                           ELSE containers
          /\ frame' = [frame EXCEPT ![t] =
                         [frame[t] EXCEPT !.creates = Append(@, frame[t].config),
                                          !.pending = [answer |-> answer, id |-> id],
                                          !.pc = next]]

Answered(t) ==
    [frame[t] EXCEPT !.pending = NoAnswer,
                     !.answers = Append(@, frame[t].pending.answer),
                     !.log = Append(@, Call("create_container", frame[t].pending.id,
                                            frame[t].pending.answer))]

CreateContainer(t) ==
    /\ frame[t].pc = "create"
    /\ ~panicked
    /\ EngineCreate(t, "create_sent")
    /\ UNCHANGED <<command, preexisting, networks, created_networks, guard, panicked,
                   httpAlive, clientPc, sweepIdx, handles, rmReq, netCreateReq,
                   netRemoveReq, ensureRet, concurrent, workload, nruns, himage, lookup>>

CreateContainerReturn(t) ==
    /\ frame[t].pc = "create_sent"
    /\ ~panicked
    /\ LET v == CreateVerdict(frame[t].pending.answer)
           f == Answered(t)
       IN CASE v = "id" ->
                 /\ frame' = [frame EXCEPT ![t] =
                                [f EXCEPT !.cid = frame[t].pending.id, !.pc = "start"]]
                 /\ UNCHANGED panicked
            [] v = "pull" ->
                 /\ frame' = [frame EXCEPT ![t] = [f EXCEPT !.pulls = @ + 1,
                                                        !.pullResult = "streaming",
                                                        !.pc = "pull"]]
                 /\ UNCHANGED panicked
            [] OTHER ->
                 Panic(t, f)
    /\ UNCHANGED <<command, preexisting, networks, containers, created_networks, guard,
                   httpAlive, clientPc, sweepIdx, handles, rmReq, netCreateReq,
                   netRemoveReq, ensureRet, concurrent, workload, nruns, himage, lookup>>

PullNext(t) ==
    /\ frame[t].pc = "pull"
    /\ ~panicked
    /\ \E event \in {"progress", "err", "end"} :
         LET f == [frame[t] EXCEPT !.log = Append(@, Call("pull_event", 0, event))]
             v == PullVerdict(event)
         IN CASE v = "next" ->
                   /\ frame[t].pullEvents < MaxPullEvents
                   /\ frame' = [frame EXCEPT ![t] = [f EXCEPT !.pullEvents = @ + 1]]
                   /\ UNCHANGED panicked
              [] v = "retry" ->
                   /\ frame' = [frame EXCEPT ![t] = [f EXCEPT !.pullResult = "ended",
                                                          !.pc = "create_retry"]]
                   /\ UNCHANGED panicked
              [] OTHER ->
                   Panic(t, [f EXCEPT !.pullResult = "error"])
    /\ UNCHANGED <<command, preexisting, networks, containers, created_networks, guard,
                   httpAlive, clientPc, sweepIdx, handles, rmReq, netCreateReq,
                   netRemoveReq, ensureRet, concurrent, workload, nruns, himage, lookup>>

CreateRetry(t) ==
    /\ frame[t].pc = "create_retry"
    /\ ~panicked
    /\ EngineCreate(t, "retry_sent")
    /\ UNCHANGED <<command, preexisting, networks, created_networks, guard, panicked,
                   httpAlive, clientPc, sweepIdx, handles, rmReq, netCreateReq,
                   netRemoveReq, ensureRet, concurrent, workload, nruns, himage, lookup>>

CreateRetryReturn(t) ==
    /\ frame[t].pc = "retry_sent"
    /\ ~panicked
    /\ LET v == RetryVerdict(frame[t].pending.answer)
           f == Answered(t)
       IN IF v = "id"
          THEN /\ frame' = [frame EXCEPT ![t] =
                              [f EXCEPT !.cid = frame[t].pending.id, !.pc = "start"]]
               /\ UNCHANGED panicked
          ELSE Panic(t, f)
    /\ UNCHANGED <<command, preexisting, networks, containers, created_networks, guard,
                   httpAlive, clientPc, sweepIdx, handles, rmReq, netCreateReq,
                   netRemoveReq, ensureRet, concurrent, workload, nruns, himage, lookup>>

StartContainer(t) ==
    /\ frame[t].pc = "start"
    /\ ~panicked
    /\ \E answer \in {"ok", "err"} :
         /\ containers' = IF answer = "ok"
                          THEN [containers EXCEPT ![frame[t].cid] = "running"]
                          ELSE containers
         /\ frame' = [frame EXCEPT ![t] =
                        [frame[t] EXCEPT !.starts = @ + 1,
                                         !.pending = [answer |-> answer, id |-> frame[t].cid],
                                         !.pc = "start_sent"]]
    /\ UNCHANGED <<command, preexisting, networks, created_networks, guard, panicked,
                   httpAlive, clientPc, sweepIdx, handles, rmReq, netCreateReq,
                   netRemoveReq, ensureRet, concurrent, workload, nruns, himage, lookup>>

StartContainerReturn(t) ==
    /\ frame[t].pc = "start_sent"
    /\ ~panicked
    /\ LET f == [frame[t] EXCEPT !.pending = NoAnswer,
                                 !.log = Append(@, Call("start_container", frame[t].cid,
                                                        frame[t].pending.answer))]
       IN IF StartVerdict(frame[t].pending.answer) = "wait"
          THEN /\ handles' = [handles EXCEPT ![f.cid] = "waiting"]
               /\ himage' = [himage EXCEPT ![f.cid] = f.image.network]
               /\ frame' = [frame EXCEPT ![t] = [f EXCEPT !.pc = "wait"]]
               /\ UNCHANGED panicked
          ELSE /\ Panic(t, f)
               /\ UNCHANGED <<handles, himage>>
    /\ UNCHANGED <<command, preexisting, networks, containers, created_networks, guard,
                   httpAlive, clientPc, sweepIdx, rmReq, netCreateReq,
                   netRemoveReq, ensureRet, concurrent, workload, nruns, lookup>>

---------------------------------------------------------------------------
(* Drop for ContainerAsync and ContainerAsync::drop_async *)

DropContainerAsync(h, ha) ==
    LET removes == drop_async_removes(command)
        r == EngineRm(containers, h)
        hs == [handles EXCEPT ![h] = "dropped"]
    IN /\ handles' = hs
       /\ rmReq' = IF removes THEN [rmReq EXCEPT ![h] = @ + 1] ELSE rmReq
       /\ containers' = IF removes THEN r.cs ELSE containers
       /\ clientPc' = ClientAfter(ha, hs)
       /\ guard' = GuardAfter(ha, hs)
       /\ sweepIdx' = IF GuardAfter(ha, hs) = "read" THEN 1 ELSE sweepIdx

---------------------------------------------------------------------------
(* ContainerAsync::new and block_until_ready *)

Waiting(t) ==
    /\ frame[t].pc = "wait"
    /\ ~panicked
    /\ frame[t].done < Len(frame[t].image.ready_conditions)

Condition(t) == NextCondition(frame[t].image.ready_conditions, frame[t].done)

WaitPanic(t, f) ==
    /\ Panic(t, f)
    /\ IF UnwindDropsHandle(f.pc)
       THEN DropContainerAsync(f.cid, httpAlive)
       ELSE UNCHANGED <<handles, rmReq, containers, clientPc, guard, sweepIdx>>

WaitLogMessage(t) ==
    /\ Waiting(t)
    /\ Condition(t) \in {"StdOutMessage", "StdErrMessage"}
    /\ \E found \in BOOLEAN :
         LET f == [frame[t] EXCEPT !.evalLog = Append(@, Condition(t)),
                                   !.log = Append(@, Call("wait", frame[t].cid, Condition(t)))]
         IN IF found
            THEN /\ frame' = [frame EXCEPT ![t] = [f EXCEPT !.done = @ + 1]]
                 /\ UNCHANGED <<panicked, handles, rmReq, containers, clientPc, guard, sweepIdx>>
            ELSE WaitPanic(t, f)
    /\ UNCHANGED <<command, preexisting, networks, created_networks,
                   httpAlive, netCreateReq,
                   netRemoveReq, ensureRet, concurrent, workload, nruns, himage, lookup>>

WaitDuration(t) ==
    /\ Waiting(t)
    /\ Condition(t) = "Duration"
    /\ frame' = [frame EXCEPT ![t] =
                   [frame[t] EXCEPT !.evalLog = Append(@, Condition(t)),
                                    !.log = Append(@, Call("wait", frame[t].cid, Condition(t))),
                                    !.done = @ + 1]]
    /\ UNCHANGED <<command, preexisting, networks, containers, created_networks, guard,
                   httpAlive, clientPc, sweepIdx, handles, rmReq, netCreateReq,
                   netRemoveReq, ensureRet, panicked, concurrent, workload, nruns, himage, lookup>>

WaitNothing(t) ==
    /\ Waiting(t)
    /\ Condition(t) = "Nothing"
    /\ frame' = [frame EXCEPT ![t] =
                   [frame[t] EXCEPT !.evalLog = Append(@, Condition(t)),
                                    !.log = Append(@, Call("wait", frame[t].cid, Condition(t))),
                                    !.done = @ + 1]]
    /\ UNCHANGED <<command, preexisting, networks, containers, created_networks, guard,
                   httpAlive, clientPc, sweepIdx, handles, rmReq, netCreateReq,
                   netRemoveReq, ensureRet, panicked, concurrent, workload, nruns, himage, lookup>>

HealthPoll(t) ==
    /\ Waiting(t)
    /\ Condition(t) = "Healthcheck"
    /\ ~frame[t].sleeping
    /\ frame[t].inHealth => Len(frame[t].seen) < MaxPolls
    /\ \E script \in HealthScripts :
         LET f0 == frame[t]
             tl == IF f0.inHealth THEN f0.timeline ELSE script
             report == Head(tl)
             rest == IF Len(tl) > 1 THEN Tail(tl) ELSE tl
             f1 == IF f0.inHealth
                   THEN f0
                   ELSE [f0 EXCEPT !.inHealth = TRUE,
                                   !.evalLog = Append(@, Condition(t)),
                                   !.log = Append(@, Call("wait", f0.cid, Condition(t))),
                                   !.hcScript = tl,
                                   !.seen = <<>>,
                                   !.sleeps = 0,
                                   !.hcResult = "pending"]
             m == HealthMatch(report)
             f2 == [f1 EXCEPT !.timeline = rest,
                              !.seen = Append(@, report),
                              !.sleeps = IF m = "sleep" THEN @ + 1 ELSE @]
             f3 == [f2 EXCEPT !.inHealth = FALSE, !.timeline = <<>>]
         IN /\ f0.inHealth => script = f0.timeline
            /\ CASE m = "break" ->
                      /\ frame' = [frame EXCEPT ![t] =
                                     [f3 EXCEPT !.done = @ + 1, !.hcResult = "ok"]]
                      /\ UNCHANGED <<panicked, handles, rmReq, containers, clientPc, guard,
                                     sweepIdx>>
                 [] m = "sleep" ->
                      /\ frame' = [frame EXCEPT ![t] = [f2 EXCEPT !.sleeping = TRUE]]
                      /\ UNCHANGED <<panicked, handles, rmReq, containers, clientPc, guard,
                                     sweepIdx>>
                 [] OTHER ->
                      WaitPanic(t, [f3 EXCEPT !.hcResult = "failed"])
    /\ UNCHANGED <<command, preexisting, networks, created_networks,
                   httpAlive, netCreateReq,
                   netRemoveReq, ensureRet, concurrent, workload, nruns, himage, lookup>>

HealthWake(t) ==
    /\ Waiting(t)
    /\ frame[t].sleeping
    /\ LET f == [frame[t] EXCEPT !.sleeping = FALSE]
       IN IF AfterHealthMatch = "loop"
          THEN /\ frame' = [frame EXCEPT ![t] = f]
               /\ UNCHANGED <<panicked, handles, rmReq, containers, clientPc, guard, sweepIdx>>
          ELSE WaitPanic(t, [f EXCEPT !.inHealth = FALSE, !.timeline = <<>>,
                                      !.hcResult = "failed"])
    /\ UNCHANGED <<command, preexisting, networks, created_networks,
                   httpAlive, netCreateReq,
                   netRemoveReq, ensureRet, concurrent, workload, nruns, himage, lookup>>

RunReturn(t) ==
    /\ frame[t].pc = "wait"
    /\ ~panicked
    /\ frame[t].done = Len(frame[t].image.ready_conditions)
    /\ handles' = [handles EXCEPT ![frame[t].cid] = "live"]
    /\ frame' = [frame EXCEPT ![t] =
                   [frame[t] EXCEPT !.pc = "done",
                                    !.log = Append(@, Call("return", frame[t].cid, "handle"))]]
    /\ UNCHANGED <<command, preexisting, networks, containers, created_networks, guard,
                   httpAlive, clientPc, sweepIdx, rmReq, netCreateReq,
                   netRemoveReq, ensureRet, panicked, concurrent, workload, nruns, himage, lookup>>

---------------------------------------------------------------------------
(* A panic unwinds through the other run futures polled by the same task *)

CancelRun(t) ==
    /\ panicked
    /\ Active(t)
    /\ frame' = [frame EXCEPT ![t] = [frame[t] EXCEPT !.pc = "cancelled"]]
    /\ IF UnwindDropsHandle(frame[t].pc)
       THEN DropContainerAsync(frame[t].cid, httpAlive)
       ELSE UNCHANGED <<handles, rmReq, containers, clientPc, guard, sweepIdx>>
    /\ UNCHANGED <<command, preexisting, networks, created_networks,
                   httpAlive, netCreateReq, panicked,
                   netRemoveReq, ensureRet, concurrent, workload, nruns, himage, lookup>>

---------------------------------------------------------------------------
(* Operations of the caller on a ContainerAsync it holds *)

Held(h) == handles[h] = "live" /\ CallerFree

HandleStart(h) ==
    /\ Held(h)
    /\ frame' = Retired
    /\ ~panicked
    /\ IF containers[h] \in Existing
       THEN containers' = [containers EXCEPT ![h] = "running"] /\ UNCHANGED panicked
       ELSE panicked' = TRUE /\ UNCHANGED containers
    /\ UNCHANGED <<command, preexisting, networks, created_networks, guard,
                   httpAlive, clientPc, sweepIdx, handles, rmReq, netCreateReq,
                   netRemoveReq, ensureRet, concurrent, workload, nruns, himage, lookup>>

HandleStop(h) ==
    /\ Held(h)
    /\ frame' = Retired
    /\ ~panicked
    /\ IF containers[h] \in Existing
       THEN containers' = [containers EXCEPT ![h] = "exited"] /\ UNCHANGED panicked
       ELSE panicked' = TRUE /\ UNCHANGED containers
    /\ UNCHANGED <<command, preexisting, networks, created_networks, guard,
                   httpAlive, clientPc, sweepIdx, handles, rmReq, netCreateReq,
                   netRemoveReq, ensureRet, concurrent, workload, nruns, himage, lookup>>

HandleRm(h) ==
    /\ Held(h)
    /\ frame' = Retired
    /\ ~panicked
    /\ LET explicit == rm_removes(command)
           r1 == IF explicit THEN EngineRm(containers, h) ELSE [ok |-> TRUE, cs |-> containers]
       IN /\ handles' = [handles EXCEPT ![h] = IF r1.ok THEN "rm_ok" ELSE "rm_err"]
          /\ rmReq' = [rmReq EXCEPT ![h] = @ + (IF explicit THEN 1 ELSE 0)]
          /\ containers' = r1.cs
    /\ UNCHANGED <<command, preexisting, networks, created_networks, guard,
                   httpAlive, clientPc, sweepIdx, netCreateReq, panicked,
                   netRemoveReq, ensureRet, concurrent, workload, nruns, himage, lookup>>

HandleRmReturn(h) ==
    /\ handles[h] \in InRm
    /\ LET removes == drop_async_removes(command)
           r2 == EngineRm(containers, h)
           hs == [handles EXCEPT ![h] = "removed"]
       IN /\ handles' = hs
          /\ rmReq' = [rmReq EXCEPT ![h] = @ + (IF removes THEN 1 ELSE 0)]
          /\ containers' = IF removes THEN r2.cs ELSE containers
          /\ panicked' = (panicked \/ handles[h] = "rm_err" \/ DropPanics(containers, h))
          /\ clientPc' = ClientAfter(httpAlive, hs)
          /\ guard' = GuardAfter(httpAlive, hs)
          /\ sweepIdx' = IF GuardAfter(httpAlive, hs) = "read" THEN 1 ELSE sweepIdx
    /\ UNCHANGED <<command, preexisting, networks, created_networks,
                   httpAlive, netCreateReq, frame,
                   netRemoveReq, ensureRet, concurrent, workload, nruns, himage, lookup>>

GetHostPort(h) ==
    /\ Held(h)
    /\ ~panicked
    /\ workload = "inspect"
    /\ lookup.calls < MaxLookups
    /\ \E family \in Families, internal_port \in {456, 5000}, resp \in PortInspects :
         LET result == get_host_port(resp, family, internal_port)
         IN /\ lookup' = [kind |-> "host_port", h |-> h,
                          calls |-> lookup.calls + 1, inspects |-> lookup.inspects + 1,
                          family |-> family, internal_port |-> internal_port,
                          network |-> himage[h], resp |-> resp, result |-> result]
            /\ panicked' = result.panic
    /\ frame' = Retired
    /\ UNCHANGED <<command, preexisting, networks, containers, created_networks, guard,
                   httpAlive, clientPc, sweepIdx, handles, rmReq, netCreateReq,
                   netRemoveReq, ensureRet, concurrent, workload, nruns, himage>>

GetBridgeIpAddress(h) ==
    /\ Held(h)
    /\ ~panicked
    /\ workload = "inspect"
    /\ lookup.calls < MaxLookups
    /\ \E resp \in BridgeInspects :
         LET result == get_bridge_ip_address(himage[h], resp)
         IN /\ lookup' = [kind |-> "bridge_ip", h |-> h,
                          calls |-> lookup.calls + 1, inspects |-> lookup.inspects + 1,
                          family |-> "-", internal_port |-> 0,
                          network |-> himage[h], resp |-> resp, result |-> result]
            /\ panicked' = result.panic
    /\ frame' = Retired
    /\ UNCHANGED <<command, preexisting, networks, containers, created_networks, guard,
                   httpAlive, clientPc, sweepIdx, handles, rmReq, netCreateReq,
                   netRemoveReq, ensureRet, concurrent, workload, nruns, himage>>

HandleScopeExit(h) ==
    /\ Held(h)
    /\ frame' = Retired
    /\ DropContainerAsync(h, httpAlive)
    /\ panicked' = (panicked \/ DropPanics(containers, h))
    /\ UNCHANGED <<command, preexisting, networks, created_networks,
                   httpAlive, netCreateReq,
                   netRemoveReq, ensureRet, concurrent, workload, nruns, himage, lookup>>

HttpScopeExit ==
    /\ httpAlive
    /\ frame' = Retired
    /\ CallerFree
    /\ httpAlive' = FALSE
    /\ clientPc' = ClientAfter(FALSE, handles)
    /\ guard' = GuardAfter(FALSE, handles)
    /\ sweepIdx' = IF GuardAfter(FALSE, handles) = "read" THEN 1 ELSE sweepIdx
    /\ UNCHANGED <<command, preexisting, networks, containers, created_networks,
                   handles, rmReq, netCreateReq,
                   netRemoveReq, ensureRet, panicked, concurrent, workload, nruns, himage, lookup>>

---------------------------------------------------------------------------
(* Drop for Client *)

SweepRequest ==
    /\ clientPc = "sweeping"
    /\ sweepIdx <= Len(created_networks)
    /\ netRemoveReq' = [netRemoveReq EXCEPT ![created_networks[sweepIdx]] = @ + 1]
    /\ clientPc' = "removing"
    /\ guard' = GuardAcrossRemove(guard)
    /\ UNCHANGED <<command, preexisting, networks, containers, created_networks,
                   httpAlive, sweepIdx, handles, rmReq, netCreateReq,
                   ensureRet, frame, panicked, concurrent, workload, nruns, himage, lookup>>

SweepAnswer ==
    /\ clientPc = "removing"
    /\ LET n == created_networks[sweepIdx]
       IN IF n \in networks
          THEN /\ networks' = networks \ {n}
               /\ sweepIdx' = sweepIdx + 1
               /\ clientPc' = "sweeping"
               /\ UNCHANGED <<guard, panicked>>
          ELSE /\ clientPc' = "dropped"
               /\ guard' = "none"
               /\ panicked' = TRUE
               /\ UNCHANGED <<networks, sweepIdx>>
    /\ UNCHANGED <<command, preexisting, containers, created_networks,
                   httpAlive, handles, rmReq, netCreateReq, netRemoveReq,
                   ensureRet, frame, concurrent, workload, nruns, himage, lookup>>

SweepEnd ==
    /\ clientPc = "sweeping"
    /\ sweepIdx > Len(created_networks)
    /\ clientPc' = "dropped"
    /\ guard' = "none"
    /\ UNCHANGED <<command, preexisting, networks, containers, created_networks,
                   httpAlive, sweepIdx, handles, rmReq, netCreateReq,
                   netRemoveReq, ensureRet, frame, panicked, concurrent, workload, nruns, himage, lookup>>

---------------------------------------------------------------------------

Next ==
    \/ \E t \in Tasks :
         \/ RunBegin(t)
         \/ NetworkList(t)
         \/ NetworkCreate(t)
         \/ NetworkCreateReturn(t)
         \/ CreateContainer(t)
         \/ CreateContainerReturn(t)
         \/ PullNext(t)
         \/ CreateRetry(t)
         \/ CreateRetryReturn(t)
         \/ StartContainer(t)
         \/ StartContainerReturn(t)
         \/ WaitLogMessage(t)
         \/ WaitDuration(t)
         \/ WaitNothing(t)
         \/ HealthPoll(t)
         \/ HealthWake(t)
         \/ RunReturn(t)
    \/ \E h \in Ids :
         \/ HandleStart(h)
         \/ HandleStop(h)
         \/ HandleRm(h)
         \/ HandleRmReturn(h)
         \/ GetHostPort(h)
         \/ GetBridgeIpAddress(h)
         \/ HandleScopeExit(h)
    \/ HttpScopeExit
    \/ SweepRequest
    \/ SweepAnswer
    \/ SweepEnd

Spec == Init /\ [][Next]_vars

NextConc ==
    \/ Next
    \/ \E t \in Tasks : CancelRun(t)

SpecConc == InitConc /\ [][NextConc]_vars

---------------------------------------------------------------------------
(* Properties *)

Last(seq) == seq[Len(seq)]

Count(seq, x) == Cardinality({i \in 1..Len(seq) : seq[i] = x})

Released(h) == handles[h] \in {"dropped", "removed"}

RunOver(f) == f.pc \in {"done", "panicked"}

FatalReports == {"NoState", "NoHealth", "NoStatus", "EMPTY", "NONE", "UNHEALTHY"}

\* C1: under Remove every released handle's container id has received exactly
\* one remove-container request, whether it was released by rm or by its
\* scope ending, and a handle still held has received none.
C1_TeardownExactlyOnce ==
    command = "Remove" =>
        \A h \in Ids :
            /\ Released(h) => rmReq[h] = 1
            /\ handles[h] = "live" => rmReq[h] = 0

\* C2: a handle whose scope ended without rm has caused one remove-container
\* request and the removal of its container under Remove, and no request
\* under Keep, where its container is still in the engine.
C2_ScopeExitPolicyGated ==
    \A h \in Ids :
        handles[h] = "dropped" =>
            IF command = "Remove"
            THEN rmReq[h] = 1 /\ containers[h] = "removed"
            ELSE rmReq[h] = 0 /\ containers[h] \in Existing

C2_Witness ==
    \E h \in Ids :
        /\ handles[h] = "dropped"
        /\ ~panicked
        /\ command = "Remove"
        /\ rmReq[h] = 1

\* C3: a Healthcheck wait whose inspections report 'starting' k times and then
\* 'healthy' ends in success after k sleeps and k + 1 polls.
C3_StartingThenHealthySucceeds ==
    \A t \in Tasks :
        LET f == frame[t]
        IN \A k \in 0..(MaxPolls - 1) :
             (/\ f.hcResult \in {"ok", "failed"}
              /\ Len(f.hcScript) > k
              /\ \A i \in 1..k : f.hcScript[i] = "STARTING"
              /\ f.hcScript[k + 1] = "HEALTHY")
             => /\ f.hcResult = "ok"
                /\ f.sleeps = k
                /\ Len(f.seen) = k + 1

\* C4: a Healthcheck wait succeeds only on a poll that reported 'healthy'; a
\* poll that reports 'unhealthy', no state, no health or no/empty/none status
\* ends the wait at that poll with a panic, and the handle is not returned.
C4_HealthcheckFatal ==
    \A t \in Tasks :
        LET f == frame[t]
        IN /\ f.hcResult = "ok" => Last(f.seen) = "HEALTHY"
           /\ \A i \in 1..Len(f.seen) :
                f.seen[i] \in FatalReports =>
                    /\ i = Len(f.seen)
                    /\ f.hcResult = "failed"
                    /\ f.pc = "panicked"
                    /\ handles[f.cid] = "dropped"

C4_Witness ==
    \E t \in Tasks :
        /\ frame[t].hcResult = "failed"
        /\ Last(frame[t].seen) = "UNHEALTHY"
        /\ frame[t].pc = "panicked"

\* C5 as stated: once a run whose first create-container got 404 is over, it
\* has issued one pull and two create-container calls with the same config.
C5_AlwaysRetriesAfter404 ==
    \A t \in Tasks :
        LET f == frame[t]
        IN (RunOver(f) /\ f.answers # <<>> /\ f.answers[1] = "404")
           => /\ f.pulls = 1
              /\ Len(f.creates) = 2
              /\ f.creates[1] = f.creates[2]

\* C5 amended: a first create-container that got 404 is followed by exactly
\* one pull and, when the pull stream ends without an error event, by exactly
\* one retried create-container with the same config; a failed retry panics
\* with nothing further issued; never more than two creates or one pull.
C5_OnePullOneRetry ==
    \A t \in Tasks :
        LET f == frame[t]
            first404 == f.answers # <<>> /\ f.answers[1] = "404"
        IN /\ Len(f.creates) <= 2
           /\ f.pulls <= 1
           /\ first404 <=> f.pulls = 1
           /\ Len(f.creates) = 2 =>
                /\ first404
                /\ f.pullResult = "ended"
                /\ f.creates[2] = f.creates[1]
           /\ (RunOver(f) /\ first404 /\ f.pullResult # "error") => Len(f.creates) = 2
           /\ (Len(f.answers) = 2 /\ f.answers[2] # "ok") =>
                /\ f.pc = "panicked"
                /\ f.cid = 0
                /\ f.starts = 0

C5_Witness ==
    \E t \in Tasks :
        /\ frame[t].answers = <<"404", "404">>
        /\ frame[t].pc = "panicked"
        /\ frame[t].pulls = 1

\* C6: a first create-container error other than 404 panics the run: no pull,
\* no second create, no start, no wait evaluation, no container and no handle.
C6_OtherCreateErrorFatal ==
    \A t \in Tasks :
        LET f == frame[t]
        IN (f.answers # <<>> /\ f.answers[1] = "err")
           => /\ f.pc = "panicked"
              /\ f.pulls = 0
              /\ Len(f.creates) = 1
              /\ f.starts = 0
              /\ f.evalLog = <<>>
              /\ f.cid = 0

C6_Witness ==
    \E t \in Tasks :
        /\ frame[t].answers = <<"err">>
        /\ frame[t].pc = "panicked"

\* C7: with sequential runs, for a network that did not exist beforehand the
\* ensure-network step returned true on its first call and false on every
\* later one, create-network was requested once and the registry holds the
\* name once.
C7_NetworkCreatedOnce ==
    ~concurrent =>
        \A n \in Networks \ preexisting :
            LET rets == ensureRet[n]
            IN IF rets = <<>>
               THEN Count(created_networks, n) = 0
               ELSE /\ rets[1] = TRUE
                    /\ \A i \in 2..Len(rets) : rets[i] = FALSE
                    /\ netCreateReq[n] = 1
                    /\ Count(created_networks, n) = 1

C7_Witness ==
    \E n \in Networks \ preexisting :
        /\ ~concurrent
        /\ ensureRet[n] = <<TRUE, FALSE>>

\* C8: once the client is dropped, under Remove every recorded network has
\* received a remove-network request and no longer exists; under Keep no
\* remove-network request was made and every recorded network still exists.
C8_NetworkCleanupPolicyGated ==
    /\ command = "Keep" => \A n \in Networks : netRemoveReq[n] = 0
    /\ clientPc = "dropped" =>
         \A i \in 1..Len(created_networks) :
            LET n == created_networks[i]
            IN IF command = "Remove"
               THEN netRemoveReq[n] >= 1 /\ n \notin networks
               ELSE n \in networks

C8_Witness ==
    /\ clientPc = "dropped"
    /\ command = "Remove"
    /\ Len(created_networks) = 2
    /\ \A i \in 1..2 : created_networks[i] \notin networks

\* C9: a network that existed before the client is never requested to be
\* created, every ensure-network step for it returned false, it is never
\* recorded, never requested to be removed, and it still exists.
C9_PreexistingNotOwned ==
    \A n \in preexisting :
        /\ netCreateReq[n] = 0
        /\ \A i \in 1..Len(ensureRet[n]) : ensureRet[n][i] = FALSE
        /\ Count(created_networks, n) = 0
        /\ netRemoveReq[n] = 0
        /\ n \in networks

C9_Witness ==
    \E n \in preexisting :
        /\ ensureRet[n] # <<>>
        /\ command = "Remove"
        /\ clientPc = "dropped"
        /\ created_networks # <<>>

\* C10: the conditions evaluated so far are the declared ones in declared
\* order, at most one beyond those that succeeded; a failed condition is the
\* last one evaluated; the run returns only after all of them succeeded.
C10_WaitInDeclaredOrder ==
    \A t \in Tasks :
        LET f == frame[t]
            conds == f.image.ready_conditions
        IN /\ Len(f.evalLog) <= Len(conds)
           /\ \A i \in 1..Len(f.evalLog) : f.evalLog[i] = conds[i]
           /\ f.done <= Len(f.evalLog)
           /\ Len(f.evalLog) <= f.done + 1
           /\ (f.pc = "wait" /\ ~f.inHealth) => Len(f.evalLog) = f.done
           /\ (f.pc = "panicked" /\ f.starts = 1 /\ f.cid # 0 /\ handles[f.cid] # "none")
                => Len(f.evalLog) = f.done + 1
           /\ f.pc = "done" => (f.done = Len(conds) /\ f.evalLog = conds)

C10_Witness ==
    \E t \in Tasks :
        LET f == frame[t]
        IN /\ f.pc = "done"
           /\ Len(f.image.ready_conditions) = 2
           /\ f.image.ready_conditions[1] # f.image.ready_conditions[2]
           /\ f.evalLog = f.image.ready_conditions

Explicit(image) == IF image.ports.some THEN image.ports.list ELSE <<>>

\* C11: every config sent to create-container has publish_all_ports set to
\* true and no port bindings exactly when the image has neither explicit
\* mappings nor exposed ports; otherwise it carries a non-empty map of
\* bindings and publish_all_ports is not set to true.
C11_PublishAllIffNoPorts ==
    \A t \in Tasks :
        \A i \in 1..Len(frame[t].creates) :
            LET c == frame[t].creates[i]
                image == frame[t].image
                none == Explicit(image) = <<>> /\ image.expose_ports = <<>>
            IN /\ none <=> (c.publish_all_ports = "Some(true)" /\ ~c.port_bindings.some)
               /\ ~none => /\ c.port_bindings.some
                           /\ DOMAIN c.port_bindings.map # {}
                           /\ c.publish_all_ports # "Some(true)"

C11_Witness ==
    \E t \in Tasks :
        /\ frame[t].creates # <<>>
        /\ ~frame[t].image.ports.some
        /\ frame[t].image.expose_ports = <<5000>>
        /\ frame[t].creates[1].port_bindings.some
        /\ frame[t].creates[1].publish_all_ports # "Some(true)"

\* C12: for an image with explicit mappings the keys of the bindings sent to
\* the engine are exactly internal/tcp of each mapping and p/tcp of each
\* exposed port p.
C12_BindingKeys ==
    \A t \in Tasks :
        \A i \in 1..Len(frame[t].creates) :
            LET c == frame[t].creates[i]
                image == frame[t].image
            IN image.ports.some =>
                 /\ c.port_bindings.some
                 /\ DOMAIN c.port_bindings.map =
                      {[port |-> Explicit(image)[j].internal, proto |-> "tcp"] :
                          j \in 1..Len(Explicit(image))}
                      \cup {[port |-> image.expose_ports[j], proto |-> "tcp"] :
                               j \in 1..Len(image.expose_ports)}

C12_Witness ==
    \E t \in Tasks :
        /\ frame[t].creates # <<>>
        /\ frame[t].image.ports.some
        /\ frame[t].image.ports.list =
             <<[local |-> 123, internal |-> 456], [local |-> 555, internal |-> 888]>>
        /\ frame[t].image.expose_ports = <<>>
        /\ DOMAIN frame[t].creates[1].port_bindings.map =
             {[port |-> 456, proto |-> "tcp"], [port |-> 888, proto |-> "tcp"]}

\* C17: in every config sent to create-container, each explicit mapping's
\* internal port/tcp is bound to host IP 127.0.0.1 and the mapping's host
\* port, whatever the exposed ports are.
C17_ExplicitBindingKept ==
    \A t \in Tasks :
        \A i \in 1..Len(frame[t].creates) :
            LET c == frame[t].creates[i]
                ps == Explicit(frame[t].image)
            IN \A j \in 1..Len(ps) :
                 c.port_bindings.map[[port |-> ps[j].internal, proto |-> "tcp"]] =
                    <<[host_ip |-> "127.0.0.1", host_port |-> [decimal |-> ps[j].local]]>>

---------------------------------------------------------------------------
(* Port and address lookups *)

Mapped(resp, family, internal_port) ==
    /\ resp.settings
    /\ resp.some
    /\ TcpKey(internal_port) \in DOMAIN resp.map
    /\ \E b \in resp.map[TcpKey(internal_port)] : IpFamily(b.host_ip) = family

\* C13: every get_host_port_ipv4/6 call inspects the container anew; it panics
\* exactly when the inspected bindings hold no mapping of internal_port/tcp for
\* the address family, and otherwise returns the host port of that mapping.
C13_HostPortLookup ==
    lookup.kind = "host_port" =>
        /\ lookup.inspects = lookup.calls
        /\ lookup.result.panic <=> ~Mapped(lookup.resp, lookup.family, lookup.internal_port)
        /\ lookup.result.panic => panicked
        /\ ~lookup.result.panic =>
             \E b \in lookup.resp.map[TcpKey(lookup.internal_port)] :
                /\ IpFamily(b.host_ip) = lookup.family
                /\ lookup.result.value = b.host_port.decimal

C13_Witness ==
    /\ lookup.kind = "host_port"
    /\ lookup.calls = 2
    /\ lookup.family = "v6"
    /\ lookup.resp.some
    /\ TcpKey(lookup.internal_port) \in DOMAIN lookup.resp.map
    /\ lookup.resp.map[TcpKey(lookup.internal_port)] = {LiveBinding("v4")}
    /\ lookup.result.panic
    /\ panicked

\* C18: get_bridge_ip_address looks the address up under the image's network
\* name when one is set and else under the engine's default bridge name; it
\* panics when settings, networks map, name, entry or IP are missing or the IP
\* does not parse, and otherwise returns the parsed IP of that entry.
C18_BridgeIpLookup ==
    lookup.kind = "bridge_ip" =>
        LET r == lookup.resp
            name == IF lookup.network # NoNetwork THEN lookup.network ELSE r.bridge
            fails == \/ ~r.settings
                     \/ ~r.some
                     \/ name = "None"
                     \/ name \notin DOMAIN r.map
                     \/ r.map[name] = "None"
                     \/ ~IpAddrFromStr(r.map[name]).ok
        IN /\ lookup.result.panic <=> fails
           /\ lookup.result.panic => panicked
           /\ ~fails => lookup.result.value = IpAddrFromStr(r.map[name]).addr

C18_Witness ==
    /\ lookup.kind = "bridge_ip"
    /\ lookup.network = "net-a"
    /\ lookup.resp.bridge = "bridge"
    /\ lookup.resp.some
    /\ DOMAIN lookup.resp.map = {"net-a", "bridge"}
    /\ lookup.resp.map["net-a"] = "10.0.0.5"
    /\ lookup.resp.map["bridge"] = "172.17.0.2"
    /\ ~lookup.result.panic
    /\ lookup.result.value.octets = <<10, 0, 0, 5>>

---------------------------------------------------------------------------
(* Order of the engine calls of one run *)

Before(l, i, P(_)) == \E j \in 1..(i - 1) : P(l[j])

EnsureDone(e) ==
    \/ e.call = "list_networks" /\ e.answer = "exists"
    \/ e.call = "create_network" /\ e.answer = "ok"

StartOk(e) == e.call = "start_container" /\ e.answer = "ok"

IsCreate(e) == e.call = "create_container"

\* C15: in a run, ensure-network has completed before the first
\* create-container when the image names a network; start-container follows a
\* successful create-container and carries the id it returned; a wait condition
\* is evaluated only after start-container succeeded; the handle is returned
\* only after every wait condition succeeded.
C15_CallOrder ==
    \A t \in Tasks :
       LET f == frame[t]
           l == f.log
       IN \A i \in 1..Len(l) :
            /\ (IsCreate(l[i]) /\ f.image.network # NoNetwork) => Before(l, i, EnsureDone)
            /\ l[i].call = "start_container" =>
                 \E j \in 1..(i - 1) :
                    /\ IsCreate(l[j]) /\ l[j].answer = "ok" /\ l[j].id = l[i].id
                    /\ \A k \in (j + 1)..(i - 1) : ~IsCreate(l[k])
            /\ l[i].call = "wait" => Before(l, i, StartOk)
            /\ l[i].call = "return" =>
                 /\ f.done = Len(f.image.ready_conditions)
                 /\ Len(f.evalLog) = Len(f.image.ready_conditions)
                 /\ Count(l, Call("return", f.cid, "handle")) = 1
                 /\ Len(SelectSeq(SubSeq(l, 1, i - 1), LAMBDA e : e.call = "wait"))
                      = Len(f.image.ready_conditions)

C15_Witness ==
    \E t \in Tasks :
       /\ frame[t].pc = "done"
       /\ frame[t].image.network = "net-a"
       /\ frame[t].answers = <<"404", "ok">>
       /\ Len(frame[t].image.ready_conditions) = 1
       /\ handles[frame[t].cid] = "live"
       /\ Last(frame[t].log).call = "return"

\* C16: in the image-missing recovery the retried create-container is issued
\* only right after the end of the pull stream, with no error event in it; an
\* error event is the last engine call of the run, which aborts there with no
\* retried create-container and no start-container.
C16_PullConsumedBeforeRetry ==
    \A t \in Tasks :
       LET f == frame[t]
           l == f.log
       IN \A i \in 1..Len(l) :
            /\ (IsCreate(l[i]) /\ Before(l, i, IsCreate)) =>
                 /\ l[i - 1] = Call("pull_event", 0, "end")
                 /\ \A j \in 1..(i - 1) : l[j] # Call("pull_event", 0, "err")
            /\ l[i] = Call("pull_event", 0, "err") =>
                 /\ i = Len(l)
                 /\ f.pc = "panicked"
                 /\ Len(f.creates) = 1
                 /\ f.starts = 0
            /\ (l[i].call = "pull_event" /\ i < Len(l) /\ l[i].answer # "end") =>
                 l[i + 1].call = "pull_event"

C16_Witness ==
    \E t \in Tasks :
       LET l == frame[t].log
       IN /\ Len(l) >= 4
          /\ \E i \in 2..(Len(l) - 2) :
               /\ l[i - 1] = Call("create_container", 0, "404")
               /\ l[i] = Call("pull_event", 0, "progress")
               /\ l[i + 1] = Call("pull_event", 0, "end")
               /\ IsCreate(l[i + 2])

---------------------------------------------------------------------------
(* Drop for Client: the registry lock and the order of the releases *)

InSweep == clientPc \in {"sweeping", "removing"}

\* C19 as stated: no remove-network call of the sweep is in progress while the
\* sweep holds the registry lock.
C19_NoLockAcrossRemove == ~(clientPc = "removing" /\ guard = "read")

\* C19 as amended: the sweep holds the registry's read lock from its first to
\* its last step, across every remove-network call, and it runs only when the
\* Http and every handle are gone, so nothing contends for the lock.
C19_ReadLockHeldAcrossRemove ==
    /\ InSweep <=> guard = "read"
    /\ guard = "read" =>
         /\ ~httpAlive
         /\ CallerFree
         /\ \A h \in Ids : handles[h] \notin {"waiting", "live"} \cup InRm

C19_Witness ==
    /\ clientPc = "removing"
    /\ guard = "read"
    /\ sweepIdx = 2
    /\ Len(created_networks) = 2
    /\ netRemoveReq[created_networks[2]] = 1

\* C20: the client's network cleanup starts only when the Http and every
\* handle are released; under Remove no remove-network is issued while a handle
\* is alive, and every released handle's remove-container was issued before.
C20_CleanupAfterAllReleased ==
    (clientPc # "alive" \/ \E n \in Networks : netRemoveReq[n] > 0) =>
        /\ ~httpAlive
        /\ \A h \in Ids : handles[h] \notin {"waiting", "live"} \cup InRm
        /\ command = "Remove" => \A h \in Ids : Released(h) => rmReq[h] >= 1

C20_Witness ==
    /\ command = "Remove"
    /\ clientPc = "removing"
    /\ netRemoveReq[created_networks[1]] = 1
    /\ \A h \in Ids : handles[h] = "dropped" /\ rmReq[h] = 1

---------------------------------------------------------------------------
(* Interleaved run calls on one client *)

\* C14: also when run calls interleave, create-network is issued at most once
\* for a name and the name is recorded at most once in created_networks.
C14_NetworkCreatedOnceConcurrent ==
    \A n \in Networks :
       /\ netCreateReq[n] <= 1
       /\ Count(created_networks, n) <= 1

---------------------------------------------------------------------------
(* Failures inside run and the explicit rm *)

WaitFailed(f) == f.pc = "panicked" /\ f.log # <<>> /\ Last(f.log).call = "wait"

\* C21: when a wait condition fails under Remove, the ContainerAsync built
\* before the wait is dropped while the panic unwinds: one remove-container
\* request is issued for its id, the container is gone, and the handle never
\* reached the caller.
C21_WaitFailureRemovesContainer ==
    \A t \in Tasks :
       LET f == frame[t]
       IN WaitFailed(f) =>
            /\ handles[f.cid] = "dropped"
            /\ ~\E i \in 1..Len(f.log) : f.log[i].call = "return"
            /\ command = "Remove" =>
                 /\ rmReq[f.cid] = 1
                 /\ containers[f.cid] = "removed"

C21_Witness ==
    \E t \in Tasks :
       /\ WaitFailed(frame[t])
       /\ command = "Remove"
       /\ frame[t].hcResult = "failed"
       /\ frame[t].seen = <<"UNHEALTHY">>
       /\ handles[frame[t].cid] = "dropped"
       /\ rmReq[frame[t].cid] = 1
       /\ containers[frame[t].cid] = "removed"

StartFailed(f) == f.log # <<>> /\ Last(f.log) = Call("start_container", f.cid, "err")

\* C22: when start-container fails after a successful create-container, the
\* run aborts there with no ContainerAsync built, and under either policy no
\* remove-container request is ever issued for the created container, which
\* stays in the engine.
C22_StartFailureOrphans ==
    /\ \A t \in Tasks :
          LET f == frame[t]
          IN (\E i \in 1..Len(f.log) : f.log[i] = Call("start_container", f.cid, "err")) =>
               /\ StartFailed(f)
               /\ f.pc = "panicked"
               /\ f.cid # 0
               /\ handles[f.cid] = "none"
               /\ rmReq[f.cid] = 0
               /\ containers[f.cid] = "created"
    /\ \A id \in Ids :
          (containers[id] # "absent" /\ handles[id] = "none") =>
              /\ rmReq[id] = 0
              /\ containers[id] \in {"created", "running"}
              /\ (containers[id] = "running" /\ ~panicked) =>
                    \E t \in Tasks : /\ frame[t].cid = id
                                     /\ frame[t].pending.answer = "ok"
                                     /\ frame[t].pc = "start_sent"

C22_Witness ==
    /\ command = "Remove"
    /\ panicked
    /\ clientPc = "dropped"
    /\ \A t \in Tasks : frame[t].pc = "idle"
    /\ \E id \in Ids :
          /\ containers[id] = "created"
          /\ handles[id] = "none"
          /\ rmReq[id] = 0
    /\ \E id \in Ids : handles[id] = "dropped" /\ rmReq[id] = 1

\* C23: an explicit rm issues a remove-container request for the handle's id
\* under either policy and consumes the handle; under Keep nothing else issues
\* one, so a container has exactly one request after an explicit rm and none
\* otherwise.
C23_ExplicitRmAlwaysRemoves ==
    \A h \in Ids :
       /\ handles[h] = "removed" =>
            /\ rmReq[h] >= 1
            /\ containers[h] = "removed"
       /\ command = "Keep" =>
            rmReq[h] = IF handles[h] \in InRm \cup {"removed"} THEN 1 ELSE 0

C23_Witness ==
    /\ command = "Keep"
    /\ ~panicked
    /\ \E h \in Ids :
          /\ handles[h] = "removed"
          /\ rmReq[h] = 1
          /\ containers[h] = "removed"
    /\ \E h \in Ids :
          /\ handles[h] = "dropped"
          /\ rmReq[h] = 0
          /\ containers[h] \in Existing

====
